---- MODULE Spec2Model ----
(***************************************************************************)
(* A model of the 6502 CPU core of src/src/cpu.rs and its opcode registry  *)
(* src/src/opcodes.rs: the CPU fields, load / reset / run, the addressing  *)
(* resolver, the status-flag helpers and the instruction handlers.         *)
(*                                                                         *)
(* One iteration of the loop of CPU::run is one Step.  A Rust panic        *)
(* (expect on the registry lookup, an index out of the memory array, an    *)
(* arithmetic overflow in a debug build, todo!) ends the run in phase      *)
(* "panicked" with the kind of the panic in err.                           *)
(*                                                                         *)
(* memory is the array [u8; 0xFFFF] held sparsely: a function from the     *)
(* addresses whose byte is not 0 to that byte.  A program (Vec<u8>) is     *)
(* held the same way: its length and its bytes that are not 0.             *)
(***************************************************************************)
EXTENDS Integers, Sequences, FiniteSets, TLC

VARIABLES register_a, register_x, register_y, status, program_counter, memory,
          phase, err, runs, job, last

vars == <<register_a, register_x, register_y, status, program_counter, memory,
          phase, err, runs, job, last>>

-----------------------------------------------------------------------------
(* Flag constants, cpu.rs:5-12 *)
FLAG_CARRY == 1
FLAG_ZERO == 2
FLAG_INTERRUPT_DISABLE == 4
FLAG_DECIMAL_MODE == 8
FLAG_BREAK == 16
FLAG_UNUSED == 32
FLAG_OVERFLOW == 64
FLAG_NEGATIVE == 128

(* The length of the memory array, [u8; 0xFFFF], cpu.rs:66 and cpu.rs:78 *)
MEM_LEN == 65535

(* Where load puts the program and what it writes to the reset vector *)
PROGRAM_START == 32768
RESET_VECTOR == 65532

(* u8 and u16 arithmetic *)
U8 == 256
U16 == 65536

Byte == 0 .. 255

(* How many times the host enters run on one CPU *)
MaxRuns == 2

-----------------------------------------------------------------------------
(* Bitwise operators of Rust on u8: &, | and ! *)
RECURSIVE BitAndN(_, _, _)
BitAndN(a, b, n) ==
    IF n = 0 THEN 0
    ELSE (a % 2) * (b % 2) + 2 * BitAndN(a \div 2, b \div 2, n - 1)

BitAnd(a, b) == BitAndN(a, b, 8)

BitNot(a) == 255 - a

BitOr(a, b) == a + b - BitAnd(a, b)

(* value as i8 as u16: the sign extension of a byte, cpu.rs:383-387 *)
SignExtend(b) == IF b >= 128 THEN b + 65280 ELSE b

(* the sum in 16 bits, as  pos as u16 + index as u16  would give it *)
wrapping_add8_wide(a, b) == a + b

wrapping_add8(a, b) == (a + b) % U8
wrapping_sub8(a, b) == (a - b + U8) % U8
wrapping_add16(a, b) == (a + b) % U16

-----------------------------------------------------------------------------
(* The CPU as a value, for the operators below *)
Cpu == [register_a |-> register_a, register_x |-> register_x,
        register_y |-> register_y, status |-> status,
        program_counter |-> program_counter, memory |-> memory]

NoErr == "none"

Ok(cpu) == [cpu |-> cpu, err |-> NoErr]
Panic(cpu, kind) == [cpu |-> cpu, err |-> kind]

(* Indexing self.memory[address as usize]: in range or a panic *)
InBounds(address) == address >= 0 /\ address < MEM_LEN

(* Mem for CPU, cpu.rs:50-58 (callers test InBounds first) *)
MemGet(mem, address) == IF address \in DOMAIN mem THEN mem[address] ELSE 0

MemPut(mem, address, data) ==
    IF data = 0
    THEN [x \in DOMAIN mem \ {address} |-> mem[x]]
    ELSE [x \in DOMAIN mem \cup {address} |-> IF x = address THEN data ELSE mem[x]]

mem_read(cpu, address) == MemGet(cpu.memory, address)

mem_write(cpu, address, data) ==
    [cpu EXCEPT !.memory = MemPut(cpu.memory, address, data)]

(* Mem::mem_read_u16, cpu.rs:31-35: both reads must be in range *)
mem_read_u16_ok(address) == InBounds(address) /\ InBounds(address + 1)

mem_read_u16(cpu, address) ==
    mem_read(cpu, address + 1) * 256 + mem_read(cpu, address)

(* a slip: the word is written high byte first *)
mem_write_u16_be(cpu, address, data) ==
    mem_write(mem_write(cpu, address, data \div 256), address + 1, data % 256)

(* Mem::mem_write_u16, cpu.rs:37-43 *)
mem_write_u16(cpu, address, data) ==
    mem_write(mem_write(cpu, address, data % 256), address + 1, data \div 256)

-----------------------------------------------------------------------------
(* Status register helpers, cpu.rs:161-196 *)
check_flag(cpu, flag) == BitAnd(cpu.status, flag) = flag

set_flag(cpu, flag) == [cpu EXCEPT !.status = BitOr(cpu.status, flag)]

(* clear_flag with ^= in place of &= !: a flag that is clear gets set *)
clear_flag_toggle(cpu, flag) ==
    [cpu EXCEPT !.status = IF BitAnd(cpu.status, flag) = flag
                           THEN cpu.status - flag ELSE BitOr(cpu.status, flag)]

clear_flag(cpu, flag) == [cpu EXCEPT !.status = BitAnd(cpu.status, BitNot(flag))]

set_flag_if(cpu, flag, condition) ==
    IF condition THEN set_flag(cpu, flag) ELSE clear_flag(cpu, flag)

update_zero_flag(cpu, result) == set_flag_if(cpu, FLAG_ZERO, result = 0)

(* a slip: the sign bit is compared as a number, so 0x80 is not negative *)
update_negative_flag_gt(cpu, result) ==
    set_flag_if(cpu, FLAG_NEGATIVE, result > FLAG_NEGATIVE)

update_negative_flag(cpu, result) ==
    set_flag_if(cpu, FLAG_NEGATIVE, BitAnd(result, FLAG_NEGATIVE) # 0)

update_zero_and_negative_flags(cpu, result) ==
    update_negative_flag(update_zero_flag(cpu, result), result)

(* Register setters, cpu.rs:198-211 *)
set_register_a(cpu, value) ==
    update_zero_and_negative_flags([cpu EXCEPT !.register_a = value], value)

set_register_x(cpu, value) ==
    update_zero_and_negative_flags([cpu EXCEPT !.register_x = value], value)

set_register_y(cpu, value) ==
    update_zero_and_negative_flags([cpu EXCEPT !.register_y = value], value)

-----------------------------------------------------------------------------
(* The opcode registry, opcodes.rs:4-22 and opcodes.rs:39-124 *)
OpCode(code, mnemonic, len, cycles, mode) ==
    [code |-> code, mnemonic |-> mnemonic, len |-> len, cycles |-> cycles,
     mode |-> mode]

CPU_OPS_CODES == <<
    OpCode(\h00, "BRK", 1, 7, "NoneAddressing"),
    OpCode(\hAA, "TAX", 1, 2, "NoneAddressing"),
    OpCode(\hE8, "INX", 1, 2, "NoneAddressing"),
    OpCode(\h29, "AND", 2, 2, "Immediate"),
    OpCode(\h25, "AND", 2, 3, "ZeroPage"),
    OpCode(\h35, "AND", 2, 4, "ZeroPage_X"),
    OpCode(\h2D, "AND", 3, 4, "Absolute"),
    OpCode(\h3D, "AND", 3, 4, "Absolute_X"),
    OpCode(\h39, "AND", 3, 4, "Absolute_Y"),
    OpCode(\h21, "AND", 2, 6, "Indirect_X"),
    OpCode(\h31, "AND", 2, 5, "Indirect_Y"),
    OpCode(\h0A, "ASL", 1, 2, "NoneAddressing"),
    OpCode(\h06, "ASL", 2, 5, "ZeroPage"),
    OpCode(\h16, "ASL", 2, 6, "ZeroPage_X"),
    OpCode(\h0E, "ASL", 3, 6, "Absolute"),
    OpCode(\h1E, "ASL", 3, 7, "Absolute_X"),
    OpCode(\h90, "BCC", 2, 2, "NoneAddressing"),
    OpCode(\hB0, "BCS", 2, 2, "NoneAddressing"),
    OpCode(\hF0, "BEQ", 2, 2, "NoneAddressing"),
    OpCode(\h30, "BMI", 2, 2, "NoneAddressing"),
    OpCode(\hD0, "BNE", 2, 2, "NoneAddressing"),
    OpCode(\h10, "BPL", 2, 2, "NoneAddressing"),
    OpCode(\h50, "BVC", 2, 2, "NoneAddressing"),
    OpCode(\h70, "BVS", 2, 2, "NoneAddressing"),
    OpCode(\h18, "CLC", 1, 2, "NoneAddressing"),
    OpCode(\hD8, "CLD", 1, 2, "NoneAddressing"),
    OpCode(\h58, "CLI", 1, 2, "NoneAddressing"),
    OpCode(\hB8, "CLV", 1, 2, "NoneAddressing"),
    OpCode(\hC9, "CMP", 2, 2, "Immediate"),
    OpCode(\hC5, "CMP", 2, 3, "ZeroPage"),
    OpCode(\hD5, "CMP", 2, 4, "ZeroPage_X"),
    OpCode(\hCD, "CMP", 3, 4, "Absolute"),
    OpCode(\hDD, "CMP", 3, 4, "Absolute_X"),
    OpCode(\hD9, "CMP", 3, 4, "Absolute_Y"),
    OpCode(\hC1, "CMP", 2, 6, "Indirect_X"),
    OpCode(\hD1, "CMP", 2, 5, "Indirect_Y"),
    OpCode(\hE0, "CPX", 2, 2, "Immediate"),
    OpCode(\hE4, "CPX", 2, 3, "ZeroPage"),
    OpCode(\hEC, "CPX", 3, 4, "Absolute"),
    OpCode(\hC0, "CPY", 2, 2, "Immediate"),
    OpCode(\hC4, "CPY", 2, 3, "ZeroPage"),
    OpCode(\hCC, "CPY", 3, 4, "Absolute"),
    OpCode(\hA9, "LDA", 2, 2, "Immediate"),
    OpCode(\hA5, "LDA", 2, 3, "ZeroPage"),
    OpCode(\hB5, "LDA", 2, 4, "ZeroPage_X"),
    OpCode(\hAD, "LDA", 3, 4, "Absolute"),
    OpCode(\hBD, "LDA", 3, 4, "Absolute_X"),
    OpCode(\hB9, "LDA", 3, 4, "Absolute_Y"),
    OpCode(\hA1, "LDA", 2, 6, "Indirect_X"),
    OpCode(\hB1, "LDA", 2, 5, "Indirect_Y"),
    OpCode(\h85, "STA", 2, 3, "ZeroPage"),
    OpCode(\h95, "STA", 2, 4, "ZeroPage_X"),
    OpCode(\h8D, "STA", 3, 4, "Absolute"),
    OpCode(\h9D, "STA", 3, 5, "Absolute_X"),
    OpCode(\h99, "STA", 3, 5, "Absolute_Y"),
    OpCode(\h81, "STA", 2, 6, "Indirect_X"),
    OpCode(\h91, "STA", 2, 6, "Indirect_Y")
>>

(* for op in CPU_OPS_CODES { m.insert(op.code, op) }: the last entry of a    *)
(* code is the one the map keeps                                             *)
OPCODES_MAP ==
    [c \in {CPU_OPS_CODES[i].code : i \in DOMAIN CPU_OPS_CODES} |->
        LET at == {i \in DOMAIN CPU_OPS_CODES : CPU_OPS_CODES[i].code = c}
            top == CHOOSE i \in at : \A j \in at : j <= i
        IN  CPU_OPS_CODES[top]]

-----------------------------------------------------------------------------
(* Panic kinds *)
UnknownOpcode == "UnknownOpcode"
UnsupportedAddressingMode == "UnsupportedAddressingMode"
NotImplemented == "NotImplemented"
IndexOutOfBounds == "IndexOutOfBounds"
ArithmeticOverflow == "ArithmeticOverflow"

ResOk(addr) == [addr |-> addr, err |-> NoErr]
ResPanic(kind) == [addr |-> 0, err |-> kind]

(* the resolver with the pointers of the indirect modes read as words: the *)
(* high byte of a pointer at 0xFF comes from 0x0100                         *)
get_operand_address_word_pointer(cpu, mode) ==
    LET pc == cpu.program_counter IN
    CASE mode = "Immediate" -> ResOk(pc)
      [] mode = "ZeroPage" ->
            IF InBounds(pc) THEN ResOk(mem_read(cpu, pc))
            ELSE ResPanic(IndexOutOfBounds)
      [] mode = "Absolute" ->
            IF mem_read_u16_ok(pc) THEN ResOk(mem_read_u16(cpu, pc))
            ELSE ResPanic(IndexOutOfBounds)
      [] mode = "ZeroPage_X" ->
            IF InBounds(pc)
            THEN ResOk(wrapping_add8(mem_read(cpu, pc), cpu.register_x))
            ELSE ResPanic(IndexOutOfBounds)
      [] mode = "ZeroPage_Y" ->
            IF InBounds(pc)
            THEN ResOk(wrapping_add8(mem_read(cpu, pc), cpu.register_y))
            ELSE ResPanic(IndexOutOfBounds)
      [] mode = "Absolute_X" ->
            IF mem_read_u16_ok(pc)
            THEN ResOk(wrapping_add16(mem_read_u16(cpu, pc), cpu.register_x))
            ELSE ResPanic(IndexOutOfBounds)
      [] mode = "Absolute_Y" ->
            IF mem_read_u16_ok(pc)
            THEN ResOk(wrapping_add16(mem_read_u16(cpu, pc), cpu.register_y))
            ELSE ResPanic(IndexOutOfBounds)
      [] mode = "Indirect_X" ->
            IF InBounds(pc)
            THEN ResOk(mem_read_u16(cpu, wrapping_add8(mem_read(cpu, pc),
                                                       cpu.register_x)))
            ELSE ResPanic(IndexOutOfBounds)
      [] mode = "Indirect_Y" ->
            IF InBounds(pc)
            THEN ResOk(wrapping_add16(mem_read_u16(cpu, mem_read(cpu, pc)),
                                      cpu.register_y))
            ELSE ResPanic(IndexOutOfBounds)
      [] OTHER -> ResPanic(UnsupportedAddressingMode)

(* CPU::get_operand_address, cpu.rs:82-134 *)
get_operand_address(cpu, mode) ==
    LET pc == cpu.program_counter IN
    CASE mode = "Immediate" -> ResOk(pc)
      [] mode = "ZeroPage" ->
            IF InBounds(pc) THEN ResOk(mem_read(cpu, pc))
            ELSE ResPanic(IndexOutOfBounds)
      [] mode = "Absolute" ->
            IF mem_read_u16_ok(pc) THEN ResOk(mem_read_u16(cpu, pc))
            ELSE ResPanic(IndexOutOfBounds)
      [] mode = "ZeroPage_X" ->
            IF InBounds(pc)
            THEN ResOk(wrapping_add8(mem_read(cpu, pc), cpu.register_x))
            ELSE ResPanic(IndexOutOfBounds)
      [] mode = "ZeroPage_Y" ->
            IF InBounds(pc)
            THEN ResOk(wrapping_add8(mem_read(cpu, pc), cpu.register_y))
            ELSE ResPanic(IndexOutOfBounds)
      [] mode = "Absolute_X" ->
            IF mem_read_u16_ok(pc)
            THEN ResOk(wrapping_add16(mem_read_u16(cpu, pc), cpu.register_x))
            ELSE ResPanic(IndexOutOfBounds)
      [] mode = "Absolute_Y" ->
            IF mem_read_u16_ok(pc)
            THEN ResOk(wrapping_add16(mem_read_u16(cpu, pc), cpu.register_y))
            ELSE ResPanic(IndexOutOfBounds)
      [] mode = "Indirect_X" ->
            IF InBounds(pc)
            THEN LET base == mem_read(cpu, pc)
                     ptr == wrapping_add8(base, cpu.register_x)
                     lo == mem_read(cpu, ptr)
                     hi == mem_read(cpu, wrapping_add8(ptr, 1))
                 IN  ResOk(hi * 256 + lo)
            ELSE ResPanic(IndexOutOfBounds)
      [] mode = "Indirect_Y" ->
            IF InBounds(pc)
            THEN LET base == mem_read(cpu, pc)
                     lo == mem_read(cpu, base)
                     hi == mem_read(cpu, wrapping_add8(base, 1))
                     deref_base == hi * 256 + lo
                 IN  ResOk(wrapping_add16(deref_base, cpu.register_y))
            ELSE ResPanic(IndexOutOfBounds)
      [] OTHER -> ResPanic(UnsupportedAddressingMode)

(* let addr = self.get_operand_address(mode); let value = self.mem_read(addr) *)
(* the first two lines of and, asl, bit, compare, dec, lda, ldx, ldy          *)
OperandErr(cpu, mode) ==
    LET r == get_operand_address(cpu, mode) IN
    IF r.err # NoErr THEN r.err
    ELSE IF ~InBounds(r.addr) THEN IndexOutOfBounds
    ELSE NoErr

OperandAddr(cpu, mode) == get_operand_address(cpu, mode).addr

OperandValue(cpu, mode) == mem_read(cpu, OperandAddr(cpu, mode))

-----------------------------------------------------------------------------
(* The handlers, cpu.rs:349-472.  Each gives Ok(cpu') or Panic(cpu, kind). *)
and(cpu, mode) ==
    IF OperandErr(cpu, mode) # NoErr THEN Panic(cpu, OperandErr(cpu, mode))
    ELSE Ok(set_register_a(cpu, BitAnd(cpu.register_a, OperandValue(cpu, mode))))

(* a rotate in place of the shift: the old carry comes in at bit 0 *)
asl_accumulator_rotate(cpu) ==
    LET value == cpu.register_a
        carry == IF check_flag(cpu, FLAG_CARRY) THEN 1 ELSE 0
        c1 == IF value \div 128 = 1 THEN set_flag(cpu, FLAG_CARRY)
              ELSE clear_flag(cpu, FLAG_CARRY)
    IN  Ok(set_register_a(c1, (value * 2 + carry) % U8))

asl_accumulator(cpu) ==
    LET value == cpu.register_a
        c1 == IF value \div 128 = 1 THEN set_flag(cpu, FLAG_CARRY)
              ELSE clear_flag(cpu, FLAG_CARRY)
    IN  Ok(set_register_a(c1, (value * 2) % U8))

(* asl that sets Zero as well as Negative from the new value *)
asl_zero_and_negative(cpu, mode) ==
    IF OperandErr(cpu, mode) # NoErr THEN Panic(cpu, OperandErr(cpu, mode))
    ELSE LET addr == OperandAddr(cpu, mode)
             value == OperandValue(cpu, mode)
             c1 == IF value \div 128 = 1 THEN set_flag(cpu, FLAG_CARRY)
                   ELSE clear_flag(cpu, FLAG_CARRY)
             shifted == (value * 2) % U8
         IN  Ok(update_zero_and_negative_flags(mem_write(c1, addr, shifted), shifted))

asl(cpu, mode) ==
    IF OperandErr(cpu, mode) # NoErr THEN Panic(cpu, OperandErr(cpu, mode))
    ELSE LET addr == OperandAddr(cpu, mode)
             value == OperandValue(cpu, mode)
             c1 == IF value \div 128 = 1 THEN set_flag(cpu, FLAG_CARRY)
                   ELSE clear_flag(cpu, FLAG_CARRY)
             shifted == (value * 2) % U8
         IN  Ok(update_negative_flag(mem_write(c1, addr, shifted), shifted))

(* branch without the wrapping_add(1): the offset counts from its own byte *)
branch_from_offset_byte(cpu, condition) ==
    IF condition
    THEN IF ~InBounds(cpu.program_counter) THEN Panic(cpu, IndexOutOfBounds)
         ELSE LET jump == mem_read(cpu, cpu.program_counter)
                  jump_addr == wrapping_add16(cpu.program_counter, SignExtend(jump))
              IN  Ok([cpu EXCEPT !.program_counter = jump_addr])
    ELSE Ok(cpu)

(* the taken branch reads its offset at program_counter *)
branch(cpu, condition) ==
    IF condition
    THEN IF ~InBounds(cpu.program_counter) THEN Panic(cpu, IndexOutOfBounds)
         ELSE LET jump == mem_read(cpu, cpu.program_counter)
                  jump_addr == wrapping_add16(
                                   wrapping_add16(cpu.program_counter, 1),
                                   SignExtend(jump))
              IN  Ok([cpu EXCEPT !.program_counter = jump_addr])
    ELSE Ok(cpu)

bit(cpu, mode) ==
    IF OperandErr(cpu, mode) # NoErr THEN Panic(cpu, OperandErr(cpu, mode))
    ELSE LET data == OperandValue(cpu, mode)
             masked_value == BitAnd(data, cpu.register_a)
             bit6 == BitAnd(data, FLAG_OVERFLOW)
             bit7 == BitAnd(data, FLAG_NEGATIVE)
             c1 == set_flag_if(cpu, FLAG_OVERFLOW, bit6 # 0)
             c2 == set_flag_if(c1, FLAG_NEGATIVE, bit7 # 0)
         IN  Ok(set_flag_if(c2, FLAG_ZERO, masked_value = 0))

(* compare with > where the code has >= *)
compare_gt(cpu, mode, compare_val) ==
    IF OperandErr(cpu, mode) # NoErr THEN Panic(cpu, OperandErr(cpu, mode))
    ELSE LET data == OperandValue(cpu, mode)
             c1 == IF compare_val > data THEN set_flag(cpu, FLAG_CARRY)
                   ELSE clear_flag(cpu, FLAG_CARRY)
         IN  Ok(update_zero_and_negative_flags(c1, wrapping_sub8(compare_val, data)))

compare(cpu, mode, compare_val) ==
    IF OperandErr(cpu, mode) # NoErr THEN Panic(cpu, OperandErr(cpu, mode))
    ELSE LET data == OperandValue(cpu, mode)
             c1 == IF compare_val >= data THEN set_flag(cpu, FLAG_CARRY)
                   ELSE clear_flag(cpu, FLAG_CARRY)
         IN  Ok(update_zero_and_negative_flags(c1, wrapping_sub8(compare_val, data)))

dec(cpu, mode) ==
    IF OperandErr(cpu, mode) # NoErr THEN Panic(cpu, OperandErr(cpu, mode))
    ELSE LET addr == OperandAddr(cpu, mode)
             result == wrapping_sub8(OperandValue(cpu, mode), 1)
         IN  Ok(update_zero_and_negative_flags(mem_write(cpu, addr, result), result))

dex(cpu, mode) == Ok(set_register_x(cpu, wrapping_sub8(cpu.register_x, 1)))

dey(cpu, mode) == Ok(set_register_y(cpu, wrapping_sub8(cpu.register_y, 1)))

lda(cpu, mode) ==
    IF OperandErr(cpu, mode) # NoErr THEN Panic(cpu, OperandErr(cpu, mode))
    ELSE Ok(set_register_a(cpu, OperandValue(cpu, mode)))

ldx(cpu, mode) ==
    IF OperandErr(cpu, mode) # NoErr THEN Panic(cpu, OperandErr(cpu, mode))
    ELSE Ok(set_register_x(cpu, OperandValue(cpu, mode)))

ldy(cpu, mode) ==
    IF OperandErr(cpu, mode) # NoErr THEN Panic(cpu, OperandErr(cpu, mode))
    ELSE Ok(set_register_y(cpu, OperandValue(cpu, mode)))

(* sta that also sets the flags from the accumulator, as lda does *)
sta_sets_flags(cpu, mode) ==
    IF OperandErr(cpu, mode) # NoErr THEN Panic(cpu, OperandErr(cpu, mode))
    ELSE Ok(update_zero_and_negative_flags(
                mem_write(cpu, OperandAddr(cpu, mode), cpu.register_a),
                cpu.register_a))

(* sta resolves the address and writes there: the write must be in range *)
sta(cpu, mode) ==
    IF OperandErr(cpu, mode) # NoErr THEN Panic(cpu, OperandErr(cpu, mode))
    ELSE Ok(mem_write(cpu, OperandAddr(cpu, mode), cpu.register_a))

(* tax that asks the resolver for an address it does not use *)
tax_resolves(cpu) ==
    IF OperandErr(cpu, "NoneAddressing") # NoErr
    THEN Panic(cpu, OperandErr(cpu, "NoneAddressing"))
    ELSE Ok(update_zero_and_negative_flags(
                [cpu EXCEPT !.register_x = cpu.register_a], cpu.register_a))

tax(cpu) ==
    Ok(update_zero_and_negative_flags(
           [cpu EXCEPT !.register_x = cpu.register_a], cpu.register_a))

(* inx with saturating_add in place of wrapping_add *)
inx_saturating(cpu) ==
    LET x == IF cpu.register_x = \hFF THEN \hFF ELSE cpu.register_x + 1
    IN  Ok(update_zero_and_negative_flags([cpu EXCEPT !.register_x = x], x))

inx(cpu) ==
    LET v == wrapping_add8(cpu.register_x, 1) IN
    Ok(update_zero_and_negative_flags([cpu EXCEPT !.register_x = v], v))

-----------------------------------------------------------------------------
(* The arms of the match of CPU::run, cpu.rs:228-337 *)
AND_CODES == {\h29, \h25, \h35, \h2D, \h3D, \h39, \h21, \h31}
ASL_CODES == {\h06, \h16, \h0E, \h1E}
BRANCH_CODES == {\h90, \hB0, \hF0, \h30, \hD0, \h10, \h50, \h70}
BIT_CODES == {\h24, \h2C}
CMP_CODES == {\hC9, \hC5, \hD5, \hCD, \hDD, \hD9, \hC1, \hD1}
CPX_CODES == {\hE0, \hE4, \hEC}
CPY_CODES == {\hC0, \hC4, \hCC}
DEC_CODES == {\hC6, \hD6, \hCE, \hDE}
LDA_CODES == {\hA9, \hA5, \hB5, \hAD, \hBD, \hB9, \hA1, \hB1}
LDX_CODES == {\hA2, \hA6, \hB6, \hAE, \hBE}
LDY_CODES == {\hA0, \hA4, \hB4, \hAC, \hBC}
(* the STA arm without its last pattern, 0x91 *)
STA_CODES_without_91 == {\h85, \h95, \h8D, \h9D, \h99, \h81}

STA_CODES == {\h85, \h95, \h8D, \h9D, \h99, \h81, \h91}

(* a slip in the arms: BVC and BVS test the overflow flag the wrong way round *)
branch_condition_swapped(cpu, code) ==
    CASE code = \h90 -> ~check_flag(cpu, FLAG_CARRY)
      [] code = \hB0 -> check_flag(cpu, FLAG_CARRY)
      [] code = \hF0 -> check_flag(cpu, FLAG_ZERO)
      [] code = \h30 -> check_flag(cpu, FLAG_NEGATIVE)
      [] code = \hD0 -> ~check_flag(cpu, FLAG_ZERO)
      [] code = \h10 -> ~check_flag(cpu, FLAG_NEGATIVE)
      [] code = \h50 -> check_flag(cpu, FLAG_OVERFLOW)
      [] code = \h70 -> ~check_flag(cpu, FLAG_OVERFLOW)
      [] OTHER -> FALSE

(* the condition each branch arm hands to branch, cpu.rs:241-275 *)
branch_condition(cpu, code) ==
    CASE code = \h90 -> ~check_flag(cpu, FLAG_CARRY)
      [] code = \hB0 -> check_flag(cpu, FLAG_CARRY)
      [] code = \hF0 -> check_flag(cpu, FLAG_ZERO)
      [] code = \h30 -> check_flag(cpu, FLAG_NEGATIVE)
      [] code = \hD0 -> ~check_flag(cpu, FLAG_ZERO)
      [] code = \h10 -> ~check_flag(cpu, FLAG_NEGATIVE)
      [] code = \h50 -> ~check_flag(cpu, FLAG_OVERFLOW)
      [] code = \h70 -> check_flag(cpu, FLAG_OVERFLOW)
      [] OTHER -> FALSE

Handled(r) == [cpu |-> r.cpu, err |-> r.err, returned |-> FALSE]

(* a slip: BRK handled like an instruction, the loop goes on *)
brk_continues(cpu) == [cpu |-> cpu, err |-> NoErr, returned |-> FALSE]

(* BRK that sets the Break flag before it returns, as the 6502 does *)
brk_sets_break(cpu) ==
    [cpu |-> set_flag(cpu, FLAG_BREAK), err |-> NoErr, returned |-> TRUE]

(* 0x00 => return, cpu.rs:330 *)
brk(cpu) == [cpu |-> cpu, err |-> NoErr, returned |-> TRUE]

dispatch(cpu, code, opcode) ==
    CASE code \in AND_CODES -> Handled(and(cpu, opcode.mode))
      [] code = \h0A -> Handled(asl_accumulator(cpu))
      [] code \in ASL_CODES -> Handled(asl(cpu, opcode.mode))
      [] code \in BRANCH_CODES -> Handled(branch(cpu, branch_condition(cpu, code)))
      [] code \in BIT_CODES -> Handled(bit(cpu, opcode.mode))
      [] code = \h18 -> Handled(Ok(clear_flag(cpu, FLAG_CARRY)))
      [] code = \hD8 -> Handled(Ok(clear_flag(cpu, FLAG_DECIMAL_MODE)))
      [] code = \h58 -> Handled(Ok(clear_flag(cpu, FLAG_INTERRUPT_DISABLE)))
      [] code = \hB8 -> Handled(Ok(clear_flag(cpu, FLAG_OVERFLOW)))
      [] code \in CMP_CODES -> Handled(compare(cpu, opcode.mode, cpu.register_a))
      [] code \in CPX_CODES -> Handled(compare(cpu, opcode.mode, cpu.register_x))
      [] code \in CPY_CODES -> Handled(compare(cpu, opcode.mode, cpu.register_y))
      [] code \in DEC_CODES -> Handled(dec(cpu, opcode.mode))
      [] code = \hCA -> Handled(dex(cpu, opcode.mode))
      [] code = \h88 -> Handled(dey(cpu, opcode.mode))
      [] code \in LDA_CODES -> Handled(lda(cpu, opcode.mode))
      [] code \in LDX_CODES -> Handled(ldx(cpu, opcode.mode))
      [] code \in LDY_CODES -> Handled(ldy(cpu, opcode.mode))
      [] code \in STA_CODES -> Handled(sta(cpu, opcode.mode))
      [] code = \hAA -> Handled(tax(cpu))
      [] code = \hE8 -> Handled(inx(cpu))
      [] code = \h00 -> brk(cpu)
      [] OTHER -> [cpu |-> cpu, err |-> NotImplemented, returned |-> FALSE]

(* a slip: a code the registry lacks is given a one-byte descriptor *)
opcode_map_get_or_default(code) ==
    IF code \in DOMAIN OPCODES_MAP
    THEN [found |-> TRUE, opcode |-> OPCODES_MAP[code]]
    ELSE [found |-> TRUE, opcode |-> OpCode(code, "", 1, 0, "NoneAddressing")]

(* opcode_map.get(&code), cpu.rs:224-225 *)
opcode_map_get(code) ==
    IF code \in DOMAIN OPCODES_MAP
    THEN [found |-> TRUE, opcode |-> OPCODES_MAP[code]]
    ELSE [found |-> FALSE, opcode |-> OpCode(code, "", 0, 0, "NoneAddressing")]

(* a slip: the whole length is added, the opcode byte counted twice *)
advance_whole_len(cpu, program_counter_state, opcode) ==
    IF cpu.program_counter = program_counter_state
    THEN {[cpu |-> [cpu EXCEPT !.program_counter = (cpu.program_counter + opcode.len) % U16],
           phase |-> "running", err |-> NoErr]}
    ELSE {[cpu |-> cpu, phase |-> "running", err |-> NoErr]}

(* self.program_counter += (opcode.len - 1) as u16, cpu.rs:341-343: past     *)
(* 0xFFFF a debug build panics and a release build wraps                     *)
advance(cpu, program_counter_state, opcode) ==
    IF cpu.program_counter = program_counter_state
    THEN LET sum == cpu.program_counter + (opcode.len - 1) IN
         IF sum >= U16
         THEN {[cpu |-> cpu, phase |-> "panicked", err |-> ArithmeticOverflow],
               [cpu |-> [cpu EXCEPT !.program_counter = sum % U16],
                phase |-> "running", err |-> NoErr]}
         ELSE {[cpu |-> [cpu EXCEPT !.program_counter = sum],
                phase |-> "running", err |-> NoErr]}
    ELSE {[cpu |-> cpu, phase |-> "running", err |-> NoErr]}

(* One iteration of the loop of CPU::run, cpu.rs:220-344: the set of its    *)
(* outcomes.  The fetch at 0xFFFF is out of the array, so program_counter  *)
(* += 1 at cpu.rs:222 never overflows.                                      *)
run_iteration(cpu) ==
    IF ~InBounds(cpu.program_counter)
    THEN {[cpu |-> cpu, phase |-> "panicked", err |-> IndexOutOfBounds]}
    ELSE LET code == mem_read(cpu, cpu.program_counter)
             c1 == [cpu EXCEPT !.program_counter = cpu.program_counter + 1]
             program_counter_state == c1.program_counter
             got == opcode_map_get(code)
         IN  IF ~got.found
             THEN {[cpu |-> c1, phase |-> "panicked", err |-> UnknownOpcode]}
             ELSE LET d == dispatch(c1, code, got.opcode) IN
                  IF d.err # NoErr
                  THEN {[cpu |-> d.cpu, phase |-> "panicked", err |-> d.err]}
                  ELSE IF d.returned
                  THEN {[cpu |-> d.cpu, phase |-> "returned", err |-> NoErr]}
                  ELSE advance(d.cpu, program_counter_state, got.opcode)

(* CPU::run, cpu.rs:217-345, as a function: the outcomes of at most fuel    *)
(* iterations of the loop from cpu (an outcome of phase "running" is a run  *)
(* that has not ended within fuel iterations)                               *)
RECURSIVE run(_, _)
run(cpu, fuel) ==
    IF fuel = 0 THEN {[cpu |-> cpu, phase |-> "running", err |-> NoErr]}
    ELSE UNION {IF out.phase = "running" THEN run(out.cpu, fuel - 1) ELSE {out} :
                out \in run_iteration(cpu)}

-----------------------------------------------------------------------------
(* CPU::new, cpu.rs:71-80 *)
EmptyMemory == [x \in {} |-> 0]

new == [register_a |-> 0, register_x |-> 0, register_y |-> 0, status |-> 0,
        program_counter |-> 0, memory |-> EmptyMemory]

(* reset with the index register taken from the accumulator *)
reset_x_from_a(cpu) ==
    [cpu EXCEPT !.register_a = 0, !.register_x = cpu.register_a, !.status = 0,
                !.program_counter = mem_read_u16(cpu, RESET_VECTOR)]

(* CPU::reset, cpu.rs:136-142 (0xFFFC and 0xFFFD are inside the array) *)
reset(cpu) ==
    [cpu EXCEPT !.register_a = 0, !.register_x = 0, !.status = 0,
                !.program_counter = mem_read_u16(cpu, RESET_VECTOR)]

(* A program: its length and its bytes that are not 0 *)
ProgramByte(program, i) == MemGet(program.nz, i)

SliceOutOfRange == "SliceOutOfRange"

(* CPU::load, cpu.rs:144-147: the slice memory[0x8000 .. 0x8000 + len] must *)
(* end inside the array                                                     *)
load(cpu, program) ==
    IF PROGRAM_START + program.len > MEM_LEN THEN Panic(cpu, SliceOutOfRange)
    ELSE LET kept == {x \in DOMAIN cpu.memory :
                         x < PROGRAM_START \/ x >= PROGRAM_START + program.len}
             put == {PROGRAM_START + i : i \in DOMAIN program.nz}
             copied == [x \in kept \cup put |->
                          IF x \in put THEN program.nz[x - PROGRAM_START]
                          ELSE cpu.memory[x]]
         IN  Ok(mem_write_u16([cpu EXCEPT !.memory = copied],
                              RESET_VECTOR, PROGRAM_START))

(* CPU::load_and_run, cpu.rs:149-153, as a function: load, reset, run *)
load_and_run(cpu, program, fuel) ==
    LET r == load(cpu, program) IN
    IF r.err # NoErr THEN {[cpu |-> r.cpu, phase |-> "panicked", err |-> r.err]}
    ELSE run(reset(r.cpu), fuel)

-----------------------------------------------------------------------------
(* The host: the programs it loads and the values it writes to the pub     *)
(* fields of the CPU before a run, as the tests of cpu.rs do                *)
(* (cpu.register_a = 10, cpu.set_flag(FLAG_OVERFLOW), cpu.rs:512, 719).     *)

(* The Vec<u8> of a sequence of bytes *)
Prog(bytes) ==
    [len |-> Len(bytes),
     nz |-> [i \in {j \in 0 .. Len(bytes) - 1 : bytes[j + 1] # 0} |-> bytes[i + 1]]]

(* A program of len bytes, 0 but for the bytes of head at its start and    *)
(* those of tail at its end                                                 *)
LongProg(len, head, tail) ==
    [len |-> len,
     nz |-> [i \in {j \in 0 .. Len(head) - 1 : head[j + 1] # 0} \cup
                   {len - Len(tail) + j : j \in {k \in 0 .. Len(tail) - 1 : tail[k + 1] # 0}}
             |-> IF i < Len(head) THEN head[i + 1]
                 ELSE tail[i - (len - Len(tail)) + 1]]]

(* Every opcode byte alone, and every opcode the dispatcher or the registry *)
(* knows with operands                                                      *)
KnownCodes ==
    DOMAIN OPCODES_MAP \cup DEC_CODES \cup LDX_CODES \cup LDY_CODES \cup {\hCA, \h88}
      \cup BIT_CODES

OperandLo == {\h10, \h80, \hFF}
OperandHi == {\h00, \hFF}

OneOpPrograms ==
    {Prog(<<code>>) : code \in Byte} \cup
    {Prog(<<code, lo, hi>>) : code \in KnownCodes, lo \in OperandLo, hi \in OperandHi}

(* Programs of the tests of cpu.rs:581-635 and 808-815 *)
TestPrograms ==
    {Prog(<<\hA9, \hC0, \hAA, \hE8, \h00>>),
     Prog(<<\hA9, \h10, \h85, \h69, \h00>>),
     Prog(<<\hA9, \h40, \h0A, \h90, \h01, \h00, \hA9, \h10, \h00>>),
     Prog(<<\hA9, \hCF, \h85, \h10, \h24, \h10, \h00>>)}

(* Programs that reach the end of memory.  The first points the reset       *)
(* vector at 0xFFFE, where its last byte is a BCS; the others have the      *)
(* lengths around the reset vector and the end of the array.                *)
VectorProgram ==
    LongProg(32767,
             <<\hA9, \hFE, \h8D, \hFC, \hFF, \hA9, \hFF, \h8D, \hFD, \hFF, \h00>>,
             <<\hB0>>)

EdgeLengths == {0, 1, 32764, 32765, 32766, 32767, 32768, 32769}

EdgePrograms ==
    {LongProg(n, <<>>, IF n >= 4 THEN <<\h0A, \hE8, \hAA, \h18>> ELSE <<>>) :
        n \in EdgeLengths \ {1}}
    \cup {VectorProgram}

Programs == OneOpPrograms \cup TestPrograms \cup EdgePrograms

(* What the host writes to memory before a run *)
DataImage ==
    (\h0000 :> \h12) @@ (\h0001 :> \h80) @@ (\h0010 :> \hC1) @@ (\h0011 :> \h02)
    @@ (\h00FF :> \h34) @@ (\h0100 :> \h77) @@ (\h0110 :> \h40)
    @@ (\h8010 :> \h5A) @@ (\hFF00 :> \h81) @@ (\hFFFC :> \h11)
    @@ (\hFFFD :> \h22) @@ (\hFFFE :> \hE8)

PokeRegisters == {<<\h10, \h01, \h02>>, <<\hFF, \hFF, \hFF>>, <<\h80, \hF0, \h00>>}

PokeStatus == {\h00, \h01, \h02, \h40, \h80, \hFF}

-----------------------------------------------------------------------------
NoProgram == Prog(<<>>)

(* What the last operation was, and the CPU it started from; for a call of *)
(* get_operand_address also the mode it was given and the address it gave   *)
Last(op, code, taken, pre, prog) ==
    [op |-> op, code |-> code, taken |-> taken, pre |-> pre, prog |-> prog,
     mode |-> "", addr |-> -1]

LastResolve(mode, addr, pre) ==
    [Last("get_operand_address", -1, FALSE, pre, NoProgram)
        EXCEPT !.mode = mode, !.addr = addr]

SetCpu(cpu) ==
    /\ register_a' = cpu.register_a
    /\ register_x' = cpu.register_x
    /\ register_y' = cpu.register_y
    /\ status' = cpu.status
    /\ program_counter' = cpu.program_counter
    /\ memory' = cpu.memory

(* The call that loaded the program, and the program *)
Job(via, program) == [via |-> via, program |-> program]

(* phase: "new" after CPU::new, "loaded" after load, "ready" after reset,  *)
(* "running" inside run, "returned" after run returned, "panicked"          *)
Init ==
    /\ register_a = new.register_a
    /\ register_x = new.register_x
    /\ register_y = new.register_y
    /\ status = new.status
    /\ program_counter = new.program_counter
    /\ memory = new.memory
    /\ phase = "new"
    /\ err = NoErr
    /\ runs = 0
    /\ job = Job("none", NoProgram)
    /\ last = Last("new", -1, FALSE, new, NoProgram)

(* the host writes the data image to memory (mem_write, cpu.rs:55-57),     *)
(* before it loads a program                                                *)
HostMemWrite ==
    /\ phase = "new"
    /\ memory' = [x \in DOMAIN memory \cup DOMAIN DataImage |->
                    IF x \in DOMAIN DataImage THEN DataImage[x] ELSE memory[x]]
    /\ last' = Last("mem_write", -1, FALSE, new, NoProgram)
    /\ UNCHANGED <<register_a, register_x, register_y, status, program_counter,
                   phase, err, runs, job>>

(* cpu.load(program), one program per CPU *)
LoadOf(program) ==
    /\ phase = "new"
    /\ LET r == load(Cpu, program) IN
        /\ SetCpu(r.cpu)
        /\ err' = r.err
        /\ phase' = IF r.err = NoErr THEN "loaded" ELSE "panicked"
    /\ job' = Job("load", program)
    /\ last' = Last("load", -1, FALSE, Cpu, program)
    /\ UNCHANGED runs

Load == phase = "new" /\ \E program \in Programs : LoadOf(program)

(* cpu.reset() *)
Reset ==
    /\ phase \in {"new", "loaded", "ready", "returned"}
    /\ SetCpu(reset(Cpu))
    /\ phase' = "ready"
    /\ last' = Last("reset", -1, FALSE, Cpu, NoProgram)
    /\ UNCHANGED <<err, runs, job>>

(* the host sets the registers and the status after the reset and before   *)
(* the first run, as the tests do (cpu.rs:512, 544, 719, 747)               *)
PokeOf(regs, flags) ==
    /\ phase = "ready"
    /\ runs = 0
    /\ register_a' = regs[1]
    /\ register_x' = regs[2]
    /\ register_y' = regs[3]
    /\ status' = flags
    /\ last' = Last("poke", -1, FALSE, new, NoProgram)
    /\ UNCHANGED <<program_counter, memory, phase, err, runs, job>>

Poke ==
    /\ phase = "ready"
    /\ \E regs \in PokeRegisters, flags \in PokeStatus : PokeOf(regs, flags)

(* cpu.run() is entered, after a reset or again after it returned *)
Run ==
    /\ phase \in {"ready", "returned"}
    /\ runs < MaxRuns
    /\ phase' = "running"
    /\ runs' = runs + 1
    /\ last' = Last("run", -1, FALSE, Cpu, NoProgram)
    /\ UNCHANGED <<register_a, register_x, register_y, status, program_counter,
                   memory, err, job>>

(* cpu.load_and_run(program), cpu.rs:149-153, up to the entry of the loop *)
LoadAndRunOf(program) ==
    /\ phase = "new"
    /\ runs < MaxRuns
    /\ LET r == load(Cpu, program) IN
        IF r.err # NoErr
        THEN /\ SetCpu(r.cpu)
             /\ err' = r.err
             /\ phase' = "panicked"
             /\ UNCHANGED runs
        ELSE /\ SetCpu(reset(r.cpu))
             /\ err' = NoErr
             /\ phase' = "running"
             /\ runs' = runs + 1
    /\ job' = Job("load_and_run", program)
    /\ last' = Last("load_and_run", -1, FALSE, Cpu, program)

LoadAndRun == phase = "new" /\ \E program \in Programs : LoadAndRunOf(program)

(* the opcode an iteration fetches, -1 when the fetch is out of the array *)
Fetched(cpu) ==
    IF InBounds(cpu.program_counter) THEN mem_read(cpu, cpu.program_counter) ELSE -1

(* the iteration calls branch with a true condition *)
BranchTaken(cpu) ==
    /\ Fetched(cpu) \in BRANCH_CODES
    /\ opcode_map_get(Fetched(cpu)).found
    /\ branch_condition(cpu, Fetched(cpu))

(* one iteration of the loop of run *)
Step ==
    /\ phase = "running"
    /\ \E out \in run_iteration(Cpu) :
        /\ SetCpu(out.cpu)
        /\ phase' = out.phase
        /\ err' = out.err
    /\ last' = Last("step", Fetched(Cpu), BranchTaken(Cpu), Cpu, NoProgram)
    /\ UNCHANGED <<runs, job>>

(* A second host, for the instructions with one operand byte: it loads     *)
(* every program  opcode, byte, BRK  of the immediate and branch opcodes.   *)
ByteCodes == BRANCH_CODES \cup {\h29, \hC9, \hE0, \hC0, \hA9, \hA2, \hA0}

BytePrograms == {Prog(<<code, v, \h00>>) : code \in ByteCodes, v \in Byte}

LoadByte == phase = "new" /\ \E program \in BytePrograms : LoadOf(program)

LoadAndRunByte ==
    phase = "new" /\ \E program \in BytePrograms : LoadAndRunOf(program)

PokeByte ==
    /\ phase = "ready"
    /\ \E flags \in PokeStatus : PokeOf(<<\h80, \hF0, \h02>>, flags)

NextByte == LoadByte \/ LoadAndRunByte \/ Reset \/ PokeByte \/ Run \/ Step

SpecByte == Init /\ [][NextByte]_vars

(* A third host, for the instructions of one register or one memory byte:  *)
(* it calls load_and_reset(program), sets what the first instruction of the *)
(* program reads (a register, the status or the byte at 0x0010) to any      *)
(* byte, as the tests do (cpu.rs:508-513, 744-748), and calls run.          *)
ComparePrograms == {Prog(<<code, m, \h00>>) : code \in {\hC9, \hE0, \hC0}, m \in Byte}

(* ASL of the accumulator and, in its four modes, of the byte at 0x0010     *)
(* (the host leaves 0x01 in X)                                              *)
ShiftPrograms ==
    {Prog(<<\h0A, \h00>>), Prog(<<\h06, \h10, \h00>>), Prog(<<\h16, \h0F, \h00>>),
     Prog(<<\h0E, \h10, \h00, \h00>>), Prog(<<\h1E, \h0F, \h00, \h00>>)}

IncrementPrograms == {Prog(<<\hE8, \hE8, \h00>>)}

FlagClearPrograms ==
    {Prog(<<\h18, \h00>>), Prog(<<\hD8, \h00>>), Prog(<<\h58, \h00>>),
     Prog(<<\hB8, \h00>>), Prog(<<\h18, \hD8, \h58, \hB8, \h00>>)}

RegisterPrograms ==
    ComparePrograms \cup ShiftPrograms \cup IncrementPrograms \cup FlagClearPrograms

(* cpu.load_and_reset(program), cpu.rs:156-159 *)
LoadAndReset ==
    /\ phase = "new"
    /\ \E program \in RegisterPrograms :
        /\ SetCpu(reset(load(Cpu, program).cpu))
        /\ job' = Job("load_and_reset", program)
        /\ last' = Last("load_and_reset", -1, FALSE, Cpu, program)
    /\ phase' = "ready"
    /\ UNCHANGED <<err, runs>>

(* the status the host sets with the byte *)
SetupStatus(program) ==
    IF program \in ComparePrograms THEN {\hC1}
    ELSE IF program \in FlagClearPrograms THEN {\h00}
    ELSE PokeStatus

(* the CPU after the host has set the byte v and the status *)
SetupCpu(cpu, program, v, flags) ==
    LET code == ProgramByte(program, 0)
        others == [cpu EXCEPT !.register_a = \h55, !.register_x = \h01,
                              !.register_y = \hAA, !.status = flags]
    IN  IF code \in {\hC9, \h0A} THEN [others EXCEPT !.register_a = v]
        ELSE IF code \in {\hE0, \hE8} THEN [others EXCEPT !.register_x = v]
        ELSE IF code = \hC0 THEN [others EXCEPT !.register_y = v]
        ELSE IF code \in ASL_CODES THEN mem_write(others, \h0010, v)
        ELSE [others EXCEPT !.status = v]

(* the host sets the byte and calls cpu.run() *)
SetAndRun ==
    /\ phase = "ready"
    /\ runs = 0
    /\ \E v \in Byte, flags \in SetupStatus(job.program) :
        LET cpu == SetupCpu(Cpu, job.program, v, flags) IN
            /\ SetCpu(cpu)
            /\ last' = Last("run", -1, FALSE, cpu, NoProgram)
    /\ phase' = "running"
    /\ runs' = runs + 1
    /\ UNCHANGED <<err, job>>

NextRegisters == LoadAndReset \/ SetAndRun \/ Step

SpecRegisters == Init /\ [][NextRegisters]_vars

(* A fourth host, for the resolver: it calls load_and_reset with the two   *)
(* operand bytes as the program, so that program_counter points at them,    *)
(* sets the index registers (and may point program_counter at the last two  *)
(* bytes of the memory), and calls get_operand_address, which is public.    *)
AddressingMode ==
    {"Immediate", "ZeroPage", "ZeroPage_X", "ZeroPage_Y", "Absolute",
     "Absolute_X", "Absolute_Y", "Indirect_X", "Indirect_Y", "NoneAddressing"}

OperandPrograms ==
    {Prog(<<lo, \hFF>>) : lo \in Byte}
    \cup {Prog(<<lo, hi>>) : lo \in OperandLo, hi \in {\h00, \h80}}

(* pointers in the zero page: 0x02C1 at 0x10, 0xFFF0 at 0xFF with its high *)
(* byte at 0x00, and a byte at 0x0100 that is part of no pointer            *)
PointerImage ==
    (\h0000 :> \hFF) @@ (\h0001 :> \h80) @@ (\h0010 :> \hC1) @@ (\h0011 :> \h02)
    @@ (\h00FF :> \hF0) @@ (\h0100 :> \h77)

(* the host writes the pointers with mem_write, cpu.rs:55-57 *)
WritePointers ==
    /\ phase = "new"
    /\ last.op = "new"
    /\ memory' = [x \in DOMAIN memory \cup DOMAIN PointerImage |->
                    IF x \in DOMAIN PointerImage THEN PointerImage[x] ELSE memory[x]]
    /\ last' = Last("mem_write", -1, FALSE, new, NoProgram)
    /\ UNCHANGED <<register_a, register_x, register_y, status, program_counter,
                   phase, err, runs, job>>

LoadOperands ==
    /\ phase = "new"
    /\ last.op = "mem_write"
    /\ \E program \in OperandPrograms :
        /\ SetCpu(reset(load(Cpu, program).cpu))
        /\ job' = Job("load_and_reset", program)
        /\ last' = Last("load_and_reset", -1, FALSE, Cpu, program)
    /\ phase' = "ready"
    /\ UNCHANGED <<err, runs>>

(* where the host may point program_counter, given the index it sets *)
OperandsAt(x) ==
    IF x \in {\h01, \hFF} THEN {PROGRAM_START, MEM_LEN - 1} ELSE {PROGRAM_START}

(* X is any byte and Y another one *)
SetIndex ==
    /\ phase = "ready"
    /\ last.op = "load_and_reset"
    /\ \E x \in Byte :
        /\ register_x' = x
        /\ register_y' = \hFF - x
        /\ \E pc \in OperandsAt(x) : program_counter' = pc
    /\ last' = Last("set_index", -1, FALSE, new, NoProgram)
    /\ UNCHANGED <<register_a, status, memory, phase, err, runs, job>>

(* cpu.get_operand_address(mode), cpu.rs:82-134: it changes nothing *)
Resolve ==
    /\ phase = "ready"
    /\ last.op \in {"set_index", "load_and_reset"}
    /\ \E mode \in AddressingMode :
        LET r == get_operand_address(Cpu, mode) IN
            /\ err' = r.err
            /\ phase' = IF r.err = NoErr THEN "ready" ELSE "panicked"
            /\ last' = LastResolve(mode, r.addr, Cpu)
    /\ UNCHANGED <<register_a, register_x, register_y, status, program_counter,
                   memory, runs, job>>

NextResolve == WritePointers \/ LoadOperands \/ SetIndex \/ Resolve

SpecResolve == Init /\ [][NextResolve]_vars

(* A fifth host, for the dispatcher: it calls load_and_reset with an       *)
(* opcode byte and one operand byte as the program, and then either calls   *)
(* get_operand_address or run.                                              *)
OpcodePrograms == {Prog(<<code, lo>>) : code \in Byte, lo \in {\h10, \hFE}}

LoadOpcode ==
    /\ phase = "new"
    /\ \E program \in OpcodePrograms :
        /\ SetCpu(reset(load(Cpu, program).cpu))
        /\ job' = Job("load_and_reset", program)
        /\ last' = Last("load_and_reset", -1, FALSE, Cpu, program)
    /\ phase' = "ready"
    /\ UNCHANGED <<err, runs>>

NextDispatch == LoadOpcode \/ Resolve \/ Run \/ Step

SpecDispatch == Init /\ [][NextDispatch]_vars

(* A sixth host, for load_and_run on a CPU that has been used: it sets the *)
(* registers, the status and the program counter of the new CPU (pub        *)
(* fields), may write the data image, and calls load_and_run.               *)
MaxFuel == 12

PriorRegisters == PokeRegisters \cup {<<\h00, \h00, \h00>>}

PriorStatus == {\h00, \hFF}

PriorCounters == {\h0000, \h1234}

PriorPrograms ==
    TestPrograms \cup {Prog(<<code, \h10, \h00>>) : code \in DOMAIN OPCODES_MAP}

(* the CPU with the registers, the status and the program counter replaced *)
WithRegisters(cpu, regs, flags, pc) ==
    [cpu EXCEPT !.register_a = regs[1], !.register_x = regs[2],
                !.register_y = regs[3], !.status = flags, !.program_counter = pc]

SetPrior ==
    /\ phase = "new"
    /\ last.op \in {"new", "mem_write"}
    /\ \E regs \in PriorRegisters, flags \in PriorStatus, pc \in PriorCounters :
        SetCpu(WithRegisters(Cpu, regs, flags, pc))
    /\ last' = Last("set_prior", -1, FALSE, new, NoProgram)
    /\ UNCHANGED <<phase, err, runs, job>>

LoadAndRunPrior ==
    phase = "new" /\ \E program \in PriorPrograms : LoadAndRunOf(program)

NextPrior == HostMemWrite \/ SetPrior \/ LoadAndRunPrior \/ Step

SpecPrior == Init /\ [][NextPrior]_vars

(* A seventh host, for runs that do not end.  The chain is a ring of 509    *)
(* BPL instructions with offsets 0x02 and 0x7F: the one at 0x8000 jumps to  *)
(* 0x8004, each of the others 129 bytes ahead, the one at 0xFF81 past the   *)
(* end of the address space to 0x0002, and the one at 0x7F81 to 0x8000.     *)
(* The host writes the low half with mem_write and gives the high half to   *)
(* load_and_run.                                                            *)
ChainLinks == 0 .. 253

LowChain ==
    [x \in {2 + 129 * k : k \in ChainLinks} \cup {3 + 129 * k : k \in ChainLinks} |->
        IF (x - 2) % 129 = 0 THEN \h10 ELSE \h7F]

ChainProgram ==
    [len |-> 32643,
     nz |-> [i \in {0, 1} \cup {4 + 129 * k : k \in ChainLinks}
                        \cup {5 + 129 * k : k \in ChainLinks} |->
               IF i = 0 THEN \h10
               ELSE IF i = 1 THEN \h02
               ELSE IF (i - 4) % 129 = 0 THEN \h10 ELSE \h7F]]

(* the chain, a branch to itself taken (BNE) and not taken (BEQ, and BNE    *)
(* after LDA #0), a branch two bytes back, and the programs of the tests    *)
LoopPrograms ==
    {ChainProgram, Prog(<<\hD0, \hFE, \h00>>), Prog(<<\hF0, \hFE, \h00>>),
     Prog(<<\hA9, \h00, \hD0, \hFE, \h00>>), Prog(<<\hE8, \h10, \hFD, \h00>>)}
    \cup TestPrograms

WriteChain ==
    /\ phase = "new"
    /\ last.op = "new"
    /\ memory' = [x \in DOMAIN memory \cup DOMAIN LowChain |->
                    IF x \in DOMAIN LowChain THEN LowChain[x] ELSE memory[x]]
    /\ last' = Last("mem_write", -1, FALSE, new, NoProgram)
    /\ UNCHANGED <<register_a, register_x, register_y, status, program_counter,
                   phase, err, runs, job>>

LoadAndRunLoop ==
    phase = "new" /\ \E program \in LoopPrograms : LoadAndRunOf(program)

NextLoop == WriteChain \/ LoadAndRunLoop \/ Step

SpecLoop == Init /\ [][NextLoop]_vars

(* the loop of run goes on as long as it has not returned or panicked *)
FairSpecLoop == SpecLoop /\ WF_vars(Step)

Next == HostMemWrite \/ Load \/ Reset \/ Poke \/ Run \/ LoadAndRun \/ Step

Spec == Init /\ [][Next]_vars

-----------------------------------------------------------------------------
(* Properties of one iteration of run.  In a state with last.op = "step"   *)
(* the CPU is as the iteration left it and last.pre is the CPU it started  *)
(* from; last.code is the opcode it fetched.                                *)

StepEnded == last.op = "step" /\ phase # "panicked"

Flag(s, flag) == BitAnd(s, flag) = flag

SameRegisters ==
    /\ register_a = last.pre.register_a
    /\ register_x = last.pre.register_x
    /\ register_y = last.pre.register_y

(* the byte after the opcode of the last iteration *)
OperandByte == MemGet(last.pre.memory, last.pre.program_counter + 1)

(* C1: after an iteration that dispatched an instruction and did not take a *)
(* branch, the program counter is the address of the opcode plus the length *)
(* the registry gives it (in the 16 bits of the program counter).           *)
C1_PcAfterInstruction ==
    (StepEnded /\ ~last.taken) =>
        /\ last.code \in DOMAIN OPCODES_MAP
        /\ program_counter =
             (last.pre.program_counter + OPCODES_MAP[last.code].len) % U16

C1_Witness ==
    /\ StepEnded
    /\ last.code \in BRANCH_CODES
    /\ ~last.taken
    /\ phase = "running"

(* C2: after a taken branch the program counter is the address after the    *)
(* offset byte plus the signed offset, modulo 65536.                        *)
C2_TakenBranchTarget ==
    (StepEnded /\ last.taken) =>
        program_counter =
            (last.pre.program_counter + 2 + SignExtend(OperandByte)) % U16

C4_BrkReturns ==
    /\ phase = "returned" => (last.op = "step" /\ last.code = \h00)
    /\ (last.op = "step" /\ last.code = \h00) =>
        /\ phase = "returned"
        /\ SameRegisters
        /\ status = last.pre.status
        /\ memory = last.pre.memory
        /\ program_counter = last.pre.program_counter + 1

C4_Witness ==
    /\ phase = "returned"
    /\ last.pre.status = \hFF
    /\ last.pre.register_y = \hFF
    /\ last.pre.program_counter > PROGRAM_START

(* C5: an opcode byte that is no key of the registry stops run with the     *)
(* UnknownOpcode panic: no handler has run, so A, X, Y, the status and the  *)
(* memory are as before the fetch.                                          *)
C5_UnknownOpcode ==
    (last.op = "step" /\ last.code \in Byte /\ last.code \notin DOMAIN OPCODES_MAP) =>
        /\ phase = "panicked"
        /\ err = UnknownOpcode
        /\ SameRegisters
        /\ status = last.pre.status
        /\ memory = last.pre.memory

C5_Witness ==
    /\ phase = "panicked"
    /\ err = UnknownOpcode
    /\ last.code = \hCA
    /\ last.pre.register_x = \h01

(* C6: LDA #v sets A = v, Zero iff v = 0 and Negative iff bit 7 of v is 1  *)
(* (never both), and leaves X, Y, Carry, Overflow and the memory alone.     *)
C6_LdaImmediate ==
    (StepEnded /\ last.code = \hA9) =>
        /\ register_a = OperandByte
        /\ Flag(status, FLAG_ZERO) <=> OperandByte = 0
        /\ Flag(status, FLAG_NEGATIVE) <=> OperandByte >= 128
        /\ ~(Flag(status, FLAG_ZERO) /\ Flag(status, FLAG_NEGATIVE))
        /\ register_x = last.pre.register_x
        /\ register_y = last.pre.register_y
        /\ Flag(status, FLAG_CARRY) <=> Flag(last.pre.status, FLAG_CARRY)
        /\ Flag(status, FLAG_OVERFLOW) <=> Flag(last.pre.status, FLAG_OVERFLOW)
        /\ memory = last.pre.memory

C6_Witness ==
    /\ StepEnded
    /\ last.code = \hA9
    /\ OperandByte = \h80
    /\ last.pre.status = FLAG_ZERO
    /\ status = FLAG_NEGATIVE
    /\ register_y = \h02

(* C7: load_and_run of  LDX #v; BRK  ends with X = v, and of  LDY #v; BRK  *)
(* with Y = v, Zero set iff v = 0, Negative iff bit 7 of v, and run         *)
(* returns at the BRK.                                                      *)
C7_LdxLdyProgram ==
    (/\ job.via = "load_and_run"
     /\ job.program.len = 3
     /\ ProgramByte(job.program, 0) \in {\hA2, \hA0}
     /\ ProgramByte(job.program, 2) = \h00
     /\ phase # "running") =>
        LET v == ProgramByte(job.program, 1) IN
        /\ phase = "returned"
        /\ ProgramByte(job.program, 0) = \hA2 => register_x = v
        /\ ProgramByte(job.program, 0) = \hA0 => register_y = v
        /\ Flag(status, FLAG_ZERO) <=> v = 0
        /\ Flag(status, FLAG_NEGATIVE) <=> v >= 128

(* the address a DEC reads and writes: zero page, zero page + X, absolute, *)
(* absolute + X                                                             *)
DecAddress ==
    LET lo == OperandByte
        hi == MemGet(last.pre.memory, last.pre.program_counter + 2)
    IN  CASE last.code = \hC6 -> lo
          [] last.code = \hD6 -> (lo + last.pre.register_x) % U8
          [] last.code = \hCE -> hi * 256 + lo
          [] last.code = \hDE -> (hi * 256 + lo + last.pre.register_x) % U16

(* C8: DEX, DEY and DEC put (value - 1) mod 256 in X, Y or the byte at the *)
(* effective address, set Zero and Negative from the new value, and the     *)
(* run goes on with the next instruction.                                   *)
C8_Decrements ==
    (last.op = "step" /\ last.code \in DEC_CODES \cup {\hCA, \h88}) =>
        LET result ==
              CASE last.code = \hCA -> register_x
                [] last.code = \h88 -> register_y
                [] OTHER -> MemGet(memory, DecAddress)
            old ==
              CASE last.code = \hCA -> last.pre.register_x
                [] last.code = \h88 -> last.pre.register_y
                [] OTHER -> MemGet(last.pre.memory, DecAddress)
        IN  /\ phase = "running"
            /\ result = (old + U8 - 1) % U8
            /\ Flag(status, FLAG_ZERO) <=> result = 0
            /\ Flag(status, FLAG_NEGATIVE) <=> result >= 128

-----------------------------------------------------------------------------
(* Properties of load and reset.  In a state with last.op = "load" the CPU *)
(* is as load left it, last.pre is the CPU before and last.prog the         *)
(* program.                                                                 *)

VectorBytes == {RESET_VECTOR, RESET_VECTOR + 1}

LoadTarget == {PROGRAM_START + i : i \in 0 .. last.prog.len - 1}

SameCpuRegisters ==
    /\ SameRegisters
    /\ status = last.pre.status
    /\ program_counter = last.pre.program_counter

VectorWritten ==
    /\ MemGet(memory, RESET_VECTOR) = \h00
    /\ MemGet(memory, RESET_VECTOR + 1) = \h80

(* every byte outside S is what it was *)
UnchangedOutside(S) ==
    \A x \in (DOMAIN memory \cup DOMAIN last.pre.memory) \ S :
        MemGet(memory, x) = MemGet(last.pre.memory, x)

C10_Reset ==
    last.op = "reset" =>
        /\ register_a = 0
        /\ register_x = 0
        /\ register_y = 0
        /\ status = 0
        /\ program_counter =
              MemGet(last.pre.memory, RESET_VECTOR + 1) * 256
                + MemGet(last.pre.memory, RESET_VECTOR)
        /\ memory = last.pre.memory

(* C11: reset is idempotent: a reset that follows a reset with no run       *)
(* between them leaves A, X, Y, the status, the program counter and the     *)
(* memory as the first reset left them.                                     *)
C11_ResetIdempotent ==
    [][(last.op = "reset" /\ last'.op = "reset") => Cpu' = Cpu]_vars

(* the second of two resets, of a CPU whose registers the host had set and  *)
(* whose reset vector the program had overwritten                           *)
C11_Witness ==
    /\ last.op = "reset"
    /\ last.pre = Cpu
    /\ runs > 0
    /\ register_y # 0
    /\ program_counter = \hFFFE

(* C12: the memory has a byte at every address 0x0000..0xFFFF and the       *)
(* program counter and every address are taken modulo 65536, so no fetch,   *)
(* operand access or word access of an iteration fails at or across 0xFFFF. *)
C12_FlatMemory ==
    last.op = "step" =>
        ~(phase = "panicked" /\ err \in {IndexOutOfBounds, ArithmeticOverflow})

(* The compare instructions, the register each compares and its operand *)
CompareCodes == CMP_CODES \cup CPX_CODES \cup CPY_CODES

CompareRegister ==
    IF last.code \in CMP_CODES THEN last.pre.register_a
    ELSE IF last.code \in CPX_CODES THEN last.pre.register_x
    ELSE last.pre.register_y

(* the CPU of the last iteration when its handler is called *)
AtOperand ==
    [last.pre EXCEPT !.program_counter = (last.pre.program_counter + 1) % U16]

(* the effective address and the operand of the last iteration *)
LastAddress == OperandAddr(AtOperand, OPCODES_MAP[last.code].mode)

LastOperand == MemGet(last.pre.memory, LastAddress)

(* C13: CMP, CPX and CPY of a register value r and an operand m set Carry   *)
(* iff r >= m, Zero iff r = m, Negative to bit 7 of (r - m) mod 256, and    *)
(* leave A, X, Y, Overflow and the memory alone.                            *)
C13_Compare ==
    (StepEnded /\ last.code \in CompareCodes) =>
        LET r == CompareRegister
            m == LastOperand
        IN  /\ Flag(status, FLAG_CARRY) <=> r >= m
            /\ Flag(status, FLAG_ZERO) <=> r = m
            /\ Flag(status, FLAG_NEGATIVE) <=> ((r - m + U8) % U8) >= \h80
            /\ SameRegisters
            /\ Flag(status, FLAG_OVERFLOW) <=> Flag(last.pre.status, FLAG_OVERFLOW)
            /\ memory = last.pre.memory

(* CPY of 0x10 with 0x20: the carry it had is cleared, 0xF0 is negative *)
C13_Witness ==
    /\ StepEnded
    /\ last.code = \hC0
    /\ last.pre.register_y = \h10
    /\ OperandByte = \h20
    /\ Flag(last.pre.status, FLAG_CARRY)
    /\ ~Flag(status, FLAG_CARRY)
    /\ ~Flag(status, FLAG_ZERO)
    /\ Flag(status, FLAG_NEGATIVE)

(* the address BIT reads: zero page for 0x24, absolute for 0x2C *)
BitAddress ==
    IF last.code = \h24 THEN OperandByte
    ELSE MemGet(last.pre.memory, last.pre.program_counter + 2) * 256 + OperandByte

(* C14: BIT of the accumulator a and the operand byte m sets Overflow to    *)
(* bit 6 of m, Negative to bit 7 of m and Zero iff (a & m) = 0, and leaves  *)
(* A, X, Y, Carry and every memory byte alone.                              *)
C14_Bit ==
    (last.op = "step" /\ last.code \in BIT_CODES /\ InBounds(BitAddress)) =>
        LET a == last.pre.register_a
            m == MemGet(last.pre.memory, BitAddress)
        IN  /\ phase # "panicked"
            /\ Flag(status, FLAG_OVERFLOW) <=> Flag(m, FLAG_OVERFLOW)
            /\ Flag(status, FLAG_NEGATIVE) <=> Flag(m, FLAG_NEGATIVE)
            /\ Flag(status, FLAG_ZERO) <=> BitAnd(a, m) = 0
            /\ SameRegisters
            /\ Flag(status, FLAG_CARRY) <=> Flag(last.pre.status, FLAG_CARRY)
            /\ memory = last.pre.memory

(* C15: STA, in each of its addressing modes, writes A to the address the   *)
(* resolver gives and changes no other memory byte, no register and no      *)
(* flag.                                                                    *)
C15_Sta ==
    (StepEnded /\ last.code \in STA_CODES) =>
        /\ memory = MemPut(last.pre.memory, LastAddress, last.pre.register_a)
        /\ SameRegisters
        /\ status = last.pre.status

(* STA absolute,X with X not 0 that replaces a byte the host wrote, with    *)
(* the Negative flag clear and a negative accumulator                       *)
C15_Witness ==
    /\ StepEnded
    /\ last.code = \h9D
    /\ last.pre.register_x # 0
    /\ last.pre.register_a = \hFF
    /\ MemGet(last.pre.memory, LastAddress) \notin {\h00, \hFF}
    /\ MemGet(memory, LastAddress) = \hFF
    /\ ~Flag(status, FLAG_NEGATIVE)

(* C16: ASL of the accumulator a sets Carry to bit 7 of a, A to             *)
(* (a * 2) mod 256, Zero iff the new A is 0, Negative iff bit 7 of the new  *)
(* A is 1, and leaves X, Y, Overflow and the memory alone.                  *)
C16_AslAccumulator ==
    (StepEnded /\ last.code = \h0A) =>
        LET a == last.pre.register_a
            shifted == (a * 2) % U8
        IN  /\ Flag(status, FLAG_CARRY) <=> a >= \h80
            /\ register_a = shifted
            /\ Flag(status, FLAG_ZERO) <=> shifted = 0
            /\ Flag(status, FLAG_NEGATIVE) <=> shifted >= \h80
            /\ register_x = last.pre.register_x
            /\ register_y = last.pre.register_y
            /\ Flag(status, FLAG_OVERFLOW) <=> Flag(last.pre.status, FLAG_OVERFLOW)
            /\ memory = last.pre.memory

(* ASL of 0x80 with only Negative set: A is 0, Carry and Zero are set,     *)
(* Negative is cleared                                                      *)
C16_Witness ==
    /\ StepEnded
    /\ last.code = \h0A
    /\ last.pre.register_a = \h80
    /\ last.pre.status = FLAG_NEGATIVE
    /\ register_a = 0
    /\ status = BitOr(FLAG_CARRY, FLAG_ZERO)

(* C17: ASL of the byte m at the effective address sets Carry to bit 7 of   *)
(* m, stores (m * 2) mod 256 at that address, sets Negative to bit 7 of the *)
(* new value, leaves Zero as it was (also when the new value is 0) and      *)
(* leaves A, X and Y alone.                                                 *)
C17_AslMemory ==
    (StepEnded /\ last.code \in ASL_CODES) =>
        LET m == LastOperand
            shifted == (m * 2) % U8
        IN  /\ Flag(status, FLAG_CARRY) <=> m >= \h80
            /\ memory = MemPut(last.pre.memory, LastAddress, shifted)
            /\ Flag(status, FLAG_NEGATIVE) <=> shifted >= \h80
            /\ Flag(status, FLAG_ZERO) <=> Flag(last.pre.status, FLAG_ZERO)
            /\ SameRegisters

(* ASL absolute,X of 0x80 with Zero clear: the byte is 0 and Zero is clear *)
C17_Witness ==
    /\ StepEnded
    /\ last.code = \h1E
    /\ LastOperand = \h80
    /\ last.pre.status = FLAG_NEGATIVE
    /\ MemGet(memory, LastAddress) = 0
    /\ status = FLAG_CARRY

(* C18: INX sets X to (X + 1) mod 256, Zero iff the new X is 0 and Negative *)
(* iff bit 7 of the new X is 1; from 0xFF one INX gives 0x00 with Zero set  *)
(* and Negative clear, and the next INX gives 0x01 with Zero clear.         *)
C18_Inx ==
    (StepEnded /\ last.code = \hE8) =>
        /\ register_x = (last.pre.register_x + 1) % U8
        /\ Flag(status, FLAG_ZERO) <=> register_x = 0
        /\ Flag(status, FLAG_NEGATIVE) <=> register_x >= \h80
        /\ last.pre.register_x = \hFF =>
              (register_x = \h00 /\ Flag(status, FLAG_ZERO)
                 /\ ~Flag(status, FLAG_NEGATIVE))
        /\ (last.pre.register_x = \h00 /\ Flag(last.pre.status, FLAG_ZERO)) =>
              (register_x = \h01 /\ ~Flag(status, FLAG_ZERO))

(* the second INX of INX; INX; BRK, after the first took X from 0xFF to 0 *)
C18_Witness ==
    /\ StepEnded
    /\ last.code = \hE8
    /\ job.program = Prog(<<\hE8, \hE8, \h00>>)
    /\ last.pre.program_counter = PROGRAM_START + 1
    /\ last.pre.register_x = \h00
    /\ Flag(last.pre.status, FLAG_ZERO)
    /\ register_x = \h01
    /\ ~Flag(status, FLAG_ZERO)

(* The four clear instructions and the status bit each one names *)
ClearCodes == {\h18, \hD8, \h58, \hB8}

ClearedFlag ==
    CASE last.code = \h18 -> FLAG_CARRY
      [] last.code = \hD8 -> FLAG_DECIMAL_MODE
      [] last.code = \h58 -> FLAG_INTERRUPT_DISABLE
      [] last.code = \hB8 -> FLAG_OVERFLOW

AllFourClears == Prog(<<\h18, \hD8, \h58, \hB8, \h00>>)

(* C19: CLC, CLD, CLI and CLV clear bit 0, bit 3, bit 2 and bit 6 of the    *)
(* status, whatever the bit was, and leave the other seven bits, A, X, Y    *)
(* and the memory alone; after a run of all four none of the four is set.   *)
C19_ClearFlags ==
    /\ (StepEnded /\ last.code \in ClearCodes) =>
          /\ status = last.pre.status
                - (IF Flag(last.pre.status, ClearedFlag) THEN ClearedFlag ELSE 0)
          /\ ~Flag(status, ClearedFlag)
          /\ SameRegisters
          /\ memory = last.pre.memory
    /\ (job.program = AllFourClears /\ phase = "returned") =>
          /\ ~Flag(status, FLAG_CARRY)
          /\ ~Flag(status, FLAG_DECIMAL_MODE)
          /\ ~Flag(status, FLAG_INTERRUPT_DISABLE)
          /\ ~Flag(status, FLAG_OVERFLOW)

(* the run of CLC; CLD; CLI; CLV; BRK that started with all eight bits set *)
(* has returned with the other four still set                               *)
C19_Witness ==
    /\ job.program = AllFourClears
    /\ phase = "returned"
    /\ last.code = \h00
    /\ status = \hB2

(* A call of get_operand_address that returned, the operand byte b and the  *)
(* operand word w at the program counter                                    *)
Resolved == last.op = "get_operand_address" /\ phase # "panicked"

ResolvedByte == MemGet(last.pre.memory, last.pre.program_counter)

ResolvedWord ==
    MemGet(last.pre.memory, last.pre.program_counter + 1) * 256 + ResolvedByte

(* C20: with the operand byte b, the operand word w and the index i,        *)
(* ZeroPage_X and ZeroPage_Y give (b + i) mod 256, an address of the zero   *)
(* page, Absolute_X and Absolute_Y give (w + i) mod 65536, Immediate gives  *)
(* the program counter and ZeroPage gives b.                                *)
C20_IndexedModes ==
    Resolved =>
        /\ last.mode = "ZeroPage_X" =>
              /\ last.addr = (ResolvedByte + last.pre.register_x) % U8
              /\ last.addr \in 0 .. \hFF
        /\ last.mode = "ZeroPage_Y" =>
              /\ last.addr = (ResolvedByte + last.pre.register_y) % U8
              /\ last.addr \in 0 .. \hFF
        /\ last.mode = "Absolute_X" =>
              last.addr = (ResolvedWord + last.pre.register_x) % U16
        /\ last.mode = "Absolute_Y" =>
              last.addr = (ResolvedWord + last.pre.register_y) % U16
        /\ last.mode = "Immediate" => last.addr = last.pre.program_counter
        /\ last.mode = "ZeroPage" => last.addr = ResolvedByte

(* ZeroPage_Y of 0xF0 with Y = 0x20 gives 0x10, not 0x110 *)
C20_Witness ==
    /\ Resolved
    /\ last.mode = "ZeroPage_Y"
    /\ ResolvedByte = \hF0
    /\ last.pre.register_y = \h20
    /\ last.pre.register_x # \h20
    /\ last.addr = \h10

(* the byte of the zero page at p, with p taken modulo 256 *)
ZeroPageByte(p) == MemGet(last.pre.memory, p % U8)

(* C21: Indirect_X takes p = (operand + X) mod 256 and gives the address    *)
(* with low byte memory[p] and high byte memory[(p + 1) mod 256];           *)
(* Indirect_Y takes the low byte at memory[operand], the high byte at       *)
(* memory[(operand + 1) mod 256] and adds Y modulo 65536.                   *)
C21_IndirectModes ==
    Resolved =>
        /\ last.mode = "Indirect_X" =>
              LET p == (ResolvedByte + last.pre.register_x) % U8
              IN  last.addr = ZeroPageByte(p + 1) * 256 + ZeroPageByte(p)
        /\ last.mode = "Indirect_Y" =>
              last.addr =
                 (ZeroPageByte(ResolvedByte + 1) * 256 + ZeroPageByte(ResolvedByte)
                    + last.pre.register_y) % U16

(* Indirect_Y of the pointer at 0xFF, whose high byte is at 0x00: 0xFFF0    *)
(* plus Y = 0x20 is 0x0010                                                  *)
C21_Witness ==
    /\ Resolved
    /\ last.mode = "Indirect_Y"
    /\ ResolvedByte = \hFF
    /\ last.pre.register_y = \h20
    /\ MemGet(last.pre.memory, \h0100) = \h77
    /\ last.addr = \h0010

(* the opcodes the registry gives the mode NoneAddressing *)
NoneAddressingCodes ==
    {code \in DOMAIN OPCODES_MAP : OPCODES_MAP[code].mode = "NoneAddressing"}

(* C22: the resolver called with NoneAddressing fails with                  *)
(* UnsupportedAddressingMode, and no iteration of run ends with that        *)
(* failure: the opcodes of mode NoneAddressing are BRK, TAX, INX, ASL of    *)
(* the accumulator, the eight branches and CLC, CLD, CLI, CLV, and their    *)
(* handlers do not call the resolver.                                       *)
C22_NoneAddressing ==
    /\ (last.op = "get_operand_address" /\ last.mode = "NoneAddressing") =>
          (phase = "panicked" /\ err = UnsupportedAddressingMode)
    /\ last.op = "step" => err # UnsupportedAddressingMode
    /\ NoneAddressingCodes =
          {\h00, \hAA, \hE8, \h0A} \cup BRANCH_CODES \cup ClearCodes

(* TAX has run and the loop goes on *)
C22_Witness ==
    /\ StepEnded
    /\ last.code = \hAA
    /\ last.code \in NoneAddressingCodes
    /\ phase = "running"

(* the status bits no instruction sets *)
UnsetFlags == {FLAG_INTERRUPT_DISABLE, FLAG_DECIMAL_MODE, FLAG_BREAK, FLAG_UNUSED}

C24_NotImplementedUnreachable ==
    /\ last.op = "step" => err # NotImplemented
    /\ (last.op = "step" /\ phase = "panicked") =>
          err \in {UnknownOpcode, IndexOutOfBounds, ArithmeticOverflow}
    /\ (last.op = "step" /\ phase = "returned") => last.code = \h00

(* STA (zp),Y, the last entry of the registry, has run and the loop goes on *)
C24_Witness ==
    /\ StepEnded
    /\ last.code = \h91
    /\ phase = "running"

(* C25: load_and_run(p) ends in the same state (registers, status, program  *)
(* counter, memory, outcome) on two CPUs that have the same memory,         *)
(* whatever A, X, Y, the status and the program counter were before.        *)
C25_LoadAndRunDeterministic ==
    last.op = "load_and_run" =>
        \A regs \in PriorRegisters, flags \in PriorStatus, pc \in PriorCounters :
            load_and_run(WithRegisters(last.pre, regs, flags, pc), last.prog, MaxFuel)
              = load_and_run(last.pre, last.prog, MaxFuel)

(* the last iteration took a branch with a negative offset *)
NegativeBranchTaken == last.op = "step" /\ last.taken /\ OperandByte >= \h80

(* the last iteration took a branch two bytes back, to its own opcode *)
SelfBranchTaken == StepEnded /\ last.taken /\ OperandByte = \hFE

(* the last iteration went past 0xFFFF: the target of its taken branch, or  *)
(* the address after its instruction, is not below 65536                    *)
PastEnd ==
    /\ last.op = "step"
    /\ last.code \in DOMAIN OPCODES_MAP
    /\ IF last.taken
       THEN last.pre.program_counter + 2 + OperandByte >= U16
       ELSE last.pre.program_counter + OPCODES_MAP[last.code].len >= U16

(* C26 as stated: a run in which no taken branch has a negative offset      *)
(* ends, because every iteration without such a branch leaves the program   *)
(* counter higher than it found it; and a taken branch with offset -2       *)
(* leaves the CPU as it found it, so that the run never returns.            *)
C26_Terminates ==
    /\ [](phase = "running" => <>(phase # "running" \/ NegativeBranchTaken))
    /\ []((StepEnded /\ ~NegativeBranchTaken) =>
             program_counter > last.pre.program_counter)
    /\ [](SelfBranchTaken => (phase = "running" /\ Cpu = last.pre))

(* C26, amended: a run in which no taken branch has a negative offset and   *)
(* no iteration goes past 0xFFFF ends, because every such iteration leaves  *)
(* the program counter higher than it found it; and a taken branch with     *)
(* offset -2 leaves the CPU as it found it, so that the run never returns.  *)
C26_TerminatesBelowEnd ==
    /\ [](phase = "running" =>
             <>(phase # "running" \/ NegativeBranchTaken \/ PastEnd))
    /\ []((StepEnded /\ ~NegativeBranchTaken /\ ~PastEnd) =>
             program_counter > last.pre.program_counter)
    /\ [](SelfBranchTaken => (phase = "running" /\ Cpu = last.pre))

(* BNE with offset -2 and Zero clear has been taken: the CPU is as before *)
C26_Witness ==
    /\ SelfBranchTaken
    /\ last.code = \hD0
    /\ ~Flag(status, FLAG_ZERO)
    /\ program_counter = PROGRAM_START
    /\ Cpu = last.pre

====
